---- MODULE Spec2Model ----
(***************************************************************************)
(* Model of sales_campaign_crm.py: the TaskQueue, the three worker loops   *)
(* (Supervisor, AgentA, AgentB), the orchestrating main thread and the     *)
(* Google-Sheets backed lead store they share.                             *)
(*                                                                         *)
(* External calls are modelled by their outcomes: a store update either    *)
(* is applied or raises without effect, send_email returns True or False,  *)
(* the MX lookup returns True or False.                                    *)
(***************************************************************************)
EXTENDS Integers, Sequences, FiniteSets, TLC

(* ------------------------------ bounds --------------------------------- *)
\* rows the sheet may grow to
MaxRows == 2
\* TaskQueue harness: number of put calls made by the producers
MaxPuts == 3
\* rows of the worksheet when the verification rules are exercised
MaxVerifyRows == 1

(* ------------------------- program constants --------------------------- *)
\* process_retry_queue: "if attempts < 3"
MaxAttempts == 3
\* CRMHandler.__init__: self.last_processed_row = 1
InitialRow == 1
\* get_new_leads / update_lead: sheet row of record idx is idx + 2
RowOffset == 2

Workers == {"supervisor", "agent_a", "agent_b"}

\* harness threads calling the TaskQueue methods
Producers == {"p1", "p2"}
Consumers == {"c1", "c2"}
Channels == {"verification", "outreach"}

(* --------------------------- sheet contents ---------------------------- *)
DataColumns == {"Email", "Company", "Industry", "Contact Number"}
StatusColumns == {"Processing Status", "Email Verified (Y/N)", "Verification Date",
                  "Response Status", "Outreach Date", "Notes"}
\* header row of the worksheet (sheet.row_values(1))
Headers == DataColumns \cup StatusColumns

MkData(email, company, industry, contact) ==
    ("Email" :> email) @@ ("Company" :> company) @@
    ("Industry" :> industry) @@ ("Contact Number" :> contact)

\* the lead data a user may type into a new row
LeadData ==
    { MkData("ann@acme.io", "Acme", "Retail", "555-1"),
      MkData("12345", "Acme", "Retail", "555-1") }

\* status cells of a fresh row, and of a row left over from an earlier run
BlankStatus == [c \in StatusColumns |-> ""]
RejectedStatus == [BlankStatus EXCEPT !["Processing Status"] = "Verified",
                                      !["Email Verified (Y/N)"] = "N"]

\* rows that appear in the worksheet: new leads, and a lead rejected earlier
NewRows ==
    {d @@ BlankStatus : d \in LeadData} \cup
    {MkData("ann@acme.io", "Acme", "Retail", "555-1") @@ RejectedStatus}

\* cells that get_all_records hands back as int rather than str
NumericCells == {"12345"}

(* ----------------------------- TaskQueue -------------------------------- *)
\* queue.Queue.put on an unbounded queue: append at the tail, never blocks
QPutLifo(q, lead) == <<lead>> \o q
QPut(q, lead) == Append(q, lead)

\* queue.Queue.empty()
QEmpty(q) == Len(q) = 0

\* queue.Queue.get() with block=True: returns only once an item is present
QGetEnabled(q) == Len(q) > 0
QGetItem(q) == Head(q)
QGetRestKeep(q) == q
QGetRest(q) == Tail(q)

(* --------------------------- EmailValidator ---------------------------- *)
\* EmailValidator._load_disposable_domains
disposable_domains == {"example.com", "mailinator.com", "tempmail.net",
                       "company.com", "test.com", "business.com"}

\* str.lower() on the strings that occur in the sheet
Lower(s) ==
    CASE s = "Acme" -> "acme"
      [] s = "Test Company" -> "test company"
      [] s = "Retail" -> "retail"
      [] s = "Competitor" -> "competitor"
      [] s = "Direct Competitor" -> "direct competitor"
      [] s = "Test.com" -> "test.com"
      [] OTHER -> s

\* addresses matching ^[a-zA-Z0-9_.+-]+@[a-zA-Z0-9-]+\.[a-zA-Z0-9-.]+$
SyntaxOk == {"ann@acme.io", "a@test.com", "ann@Test.com"}
_check_syntax(email) == email \in SyntaxOk

\* email.split("@")[-1]
DomainOf(email) ==
    CASE email = "ann@acme.io" -> "acme.io"
      [] email = "a@test.com" -> "test.com"
      [] email = "ann@Test.com" -> "Test.com"
      [] OTHER -> email

_is_disposable(email) == Lower(DomainOf(email)) \in disposable_domains

\* validate(email); mx is the outcome of the MX lookup (_check_mx_records)
validate(email, mx) ==
    IF ~_check_syntax(email) THEN FALSE
    ELSE IF _is_disposable(email) THEN FALSE
    ELSE mx

(* ------------------------- AgentA business rules ----------------------- *)
check_industry(lead_data) ==
    Lower(lead_data["Industry"]) \notin {"competitor", "direct competitor"}

check_company_sizeExact(lead_data) ==
    lead_data["Company"] # "test company"
check_company_size(lead_data) ==
    Lower(lead_data["Company"]) # "test company"

check_contact_details(lead_data) ==
    \A field \in {"Email", "Company", "Contact Number"} : lead_data[field] # ""

perform_additional_checks(lead_data) ==
    /\ check_industry(lead_data)
    /\ check_company_size(lead_data)
    /\ check_contact_details(lead_data)

\* re.match on an int cell raises TypeError, int.lower() raises AttributeError
ValidationRaises(lead_data) ==
    \/ lead_data["Email"] \in NumericCells
    \/ lead_data["Industry"] \in NumericCells
    \/ lead_data["Company"] \in NumericCells

\* "Y" if (is_valid and additional_checks_passed) else "N"
VerificationStatus(lead_data, mx) ==
    IF validate(lead_data["Email"], mx) /\ perform_additional_checks(lead_data)
    THEN "Y" ELSE "N"

(* ----------------------------- CRMHandler ------------------------------ *)
\* update_lead: cells of row_index are overwritten for every known column
update_lead(s, row_index, updates) ==
    [s EXCEPT ![row_index + 1] =
        [c \in DOMAIN @ |->
            IF c \in (DOMAIN updates) \cap Headers THEN updates[c] ELSE @[c]]]

\* get_new_leads: records past the mark whose Processing Status is empty
AllLeads(all_records) ==
    [k \in 1..Len(all_records) |-> [index |-> k - 1, data |-> all_records[k]]]

IsNewNoMark(lead, mark) == lead.data["Processing Status"] = ""
IsNew(lead, mark) ==
    /\ lead.index + RowOffset > mark
    /\ lead.data["Processing Status"] = ""

get_new_leads(all_records, mark) ==
    SelectSeq(AllLeads(all_records), LAMBDA lead : IsNew(lead, mark))

(* ------------------------------- state --------------------------------- *)
VARIABLES
    sheet,               \* worksheet records below the header row
    last_processed_row,  \* Supervisor.last_processed_row
    verification_queue,  \* TaskQueue.verification_queue
    outreach_queue,      \* TaskQueue.outreach_queue
    retry_queue,         \* AgentB.retry_queue, entries <<lead, attempts>>
    running,             \* the running flag of each worker object
    pc,                  \* position of each worker thread
    mainPc,              \* position of the main thread
    leadA,               \* lead held by AgentA.process_lead, <<>> if none
    verification_status, \* local of AgentA.process_lead
    leadB,               \* lead held by AgentB.process_lead, <<>> if none
    statusLog,           \* per index: Processing Status values written so far
    sendLog,             \* per index: results of the send_email calls so far
    enqCount,            \* per index: add_verification_task calls so far
    hpc,                 \* harness: position of each consumer thread
    enqLog,              \* harness: per channel, leads in the order put
    deqLog,              \* harness: per channel, leads in the order got
    got,                 \* harness: per consumer, the leads its calls returned
    lastResult,          \* harness: per consumer, outcome of its last call
    nPuts,               \* harness: put calls made so far
    is_valid,            \* local of AgentA.process_lead
    excA,                \* indices for which AgentA.process_lead raised
    dateLog,             \* per index: date columns written so far
    supLog,              \* outcome of the supervisor's last discovery and poll
    report               \* <<dict>> returned by generate_report, <<>> before

storeVars == <<sheet, last_processed_row>>
queueVars == <<verification_queue, outreach_queue>>
agentAVars == <<leadA, verification_status>>
agentBVars == <<leadB, retry_queue>>
threadVars == <<running, pc, mainPc>>
histVars == <<statusLog, sendLog, enqCount>>
harnessVars == <<hpc, enqLog, deqLog, got, lastResult, nPuts>>

vars == <<sheet, last_processed_row, verification_queue, outreach_queue,
          retry_queue, running, pc, mainPc, leadA, verification_status, leadB,
          statusLog, sendLog, enqCount, hpc, enqLog, deqLog, got, lastResult,
          nPuts, is_valid, excA, dateLog, supLog, report>>

Indices == 0..(MaxRows - 1)

\* state after main() has built the objects and started the three threads
Init ==
    /\ sheet = <<>>
    /\ last_processed_row = InitialRow
    /\ verification_queue = <<>>
    /\ outreach_queue = <<>>
    /\ retry_queue = <<>>
    /\ running = [w \in Workers |-> FALSE]
    /\ pc = [w \in Workers |-> "start"]
    /\ mainPc = "run"
    /\ leadA = <<>>
    /\ verification_status = ""
    /\ leadB = <<>>
    /\ statusLog = [i \in Indices |-> <<>>]
    /\ sendLog = [i \in Indices |-> <<>>]
    /\ enqCount = [i \in Indices |-> 0]
    /\ hpc = [c \in Consumers |-> "idle"]
    /\ enqLog = [ch \in Channels |-> <<>>]
    /\ deqLog = [ch \in Channels |-> <<>>]
    /\ got = [c \in Consumers |-> <<>>]
    /\ lastResult = [c \in Consumers |-> "-"]
    /\ nPuts = [p \in Producers |-> 0]
    /\ is_valid = FALSE
    /\ excA = {}
    /\ dateLog = [i \in Indices |-> <<>>]
    /\ supLog = [leads |-> "-", emails |-> "-"]
    /\ report = <<>>

(* ---------------------------- the worksheet ---------------------------- *)
\* a user appends a row to the worksheet
AppendRow(row) ==
    /\ Len(sheet) < MaxRows
    /\ sheet' = Append(sheet, row)
    /\ UNCHANGED <<last_processed_row, queueVars, agentAVars, agentBVars,
                   threadVars, histVars, harnessVars>>
    /\ UNCHANGED <<report, is_valid, excA, dateLog, supLog>>

\* the store write of update_lead, with the history of status writes
WriteLead(lead, updates) ==
    /\ sheet' = update_lead(sheet, lead.index, updates)
    /\ statusLog' = IF "Processing Status" \in DOMAIN updates
                    THEN [statusLog EXCEPT ![lead.index] =
                              Append(@, updates["Processing Status"])]
                    ELSE statusLog
    /\ dateLog' = [dateLog EXCEPT ![lead.index] =
                       @ \o SelectSeq(<<"Verification Date", "Outreach Date">>,
                                      LAMBDA c : c \in DOMAIN updates)]

(* ----------------------------- Supervisor ------------------------------ *)
\* start_monitoring: self.running = True
S_Start ==
    /\ pc["supervisor"] = "start"
    /\ running' = [running EXCEPT !["supervisor"] = TRUE]
    /\ pc' = [pc EXCEPT !["supervisor"] = "check"]
    /\ UNCHANGED <<storeVars, queueVars, agentAVars, agentBVars, mainPc,
                   histVars, harnessVars>>
    /\ UNCHANGED <<report, is_valid, excA, dateLog, supLog>>

\* start_monitoring: while self.running
S_Check ==
    /\ pc["supervisor"] = "check"
    /\ pc' = [pc EXCEPT !["supervisor"] =
                 IF running["supervisor"] THEN "leads" ELSE "done"]
    /\ UNCHANGED <<storeVars, queueVars, agentAVars, agentBVars, running,
                   mainPc, histVars, harnessVars>>
    /\ UNCHANGED <<report, is_valid, excA, dateLog, supLog>>

\* monitor_new_leads without its try/except: a failed fetch leaves the loop
S_MonitorNewLeadsUnguarded(ok) ==
    /\ pc["supervisor"] = "leads"
    /\ pc' = [pc EXCEPT !["supervisor"] = IF ok THEN "emails" ELSE "crashed"]
    /\ IF ok
       THEN LET new_leads == get_new_leads(sheet, last_processed_row) IN
            /\ verification_queue' = verification_queue \o new_leads
            /\ last_processed_row' =
                   IF new_leads = <<>> THEN last_processed_row
                   ELSE new_leads[Len(new_leads)].index + RowOffset
            /\ enqCount' =
                   [i \in Indices |->
                       enqCount[i] +
                       Cardinality({k \in 1..Len(new_leads) : new_leads[k].index = i})]
       ELSE UNCHANGED <<verification_queue, last_processed_row, enqCount>>
    /\ UNCHANGED <<sheet, outreach_queue, agentAVars, agentBVars, running,
                   mainPc, statusLog, sendLog, harnessVars>>
    /\ supLog' = [supLog EXCEPT !.leads = IF ok THEN "ok" ELSE "failed"]
    /\ UNCHANGED <<report, is_valid, excA, dateLog>>

\* monitor_new_leads; ok = FALSE when get_all_records raises
S_MonitorNewLeads(ok) ==
    /\ pc["supervisor"] = "leads"
    /\ pc' = [pc EXCEPT !["supervisor"] = "emails"]
    /\ IF ok
       THEN LET new_leads == get_new_leads(sheet, last_processed_row) IN
            /\ verification_queue' = verification_queue \o new_leads
            /\ last_processed_row' =
                   IF new_leads = <<>> THEN last_processed_row
                   ELSE new_leads[Len(new_leads)].index + RowOffset
            /\ enqCount' =
                   [i \in Indices |->
                       enqCount[i] +
                       Cardinality({k \in 1..Len(new_leads) : new_leads[k].index = i})]
       ELSE UNCHANGED <<verification_queue, last_processed_row, enqCount>>
    /\ UNCHANGED <<sheet, outreach_queue, agentAVars, agentBVars, running,
                   mainPc, statusLog, sendLog, harnessVars>>
    /\ supLog' = [supLog EXCEPT !.leads = IF ok THEN "ok" ELSE "failed"]
    /\ UNCHANGED <<report, is_valid, excA, dateLog>>

\* monitor_email_tasks: every fetched message goes to the no-op interpreter;
\* ok = FALSE when the mailbox fetch fails (get_unread_messages returns [])
S_MonitorEmailTasks(ok) ==
    /\ pc["supervisor"] = "emails"
    /\ pc' = [pc EXCEPT !["supervisor"] = "check"]
    /\ UNCHANGED <<storeVars, queueVars, agentAVars, agentBVars, running,
                   mainPc, histVars, harnessVars>>
    /\ supLog' = [supLog EXCEPT !.emails = IF ok THEN "ok" ELSE "failed"]
    /\ UNCHANGED <<report, is_valid, excA, dateLog>>

(* ------------------------------- AgentA -------------------------------- *)
\* start_processing: self.running = True
A_Start ==
    /\ pc["agent_a"] = "start"
    /\ running' = [running EXCEPT !["agent_a"] = TRUE]
    /\ pc' = [pc EXCEPT !["agent_a"] = "check"]
    /\ UNCHANGED <<storeVars, queueVars, agentAVars, agentBVars, mainPc,
                   histVars, harnessVars>>
    /\ UNCHANGED <<report, is_valid, excA, dateLog, supLog>>

\* start_processing: while self.running
A_Check ==
    /\ pc["agent_a"] = "check"
    /\ pc' = [pc EXCEPT !["agent_a"] =
                 IF running["agent_a"] THEN "poll" ELSE "done"]
    /\ UNCHANGED <<storeVars, queueVars, agentAVars, agentBVars, running,
                   mainPc, histVars, harnessVars>>
    /\ UNCHANGED <<report, is_valid, excA, dateLog, supLog>>

\* get_verification_task: the empty() test; None sends the loop to its sleep and next pass
A_Poll ==
    /\ pc["agent_a"] = "poll"
    /\ pc' = [pc EXCEPT !["agent_a"] =
                 IF QEmpty(verification_queue) THEN "check" ELSE "get"]
    /\ UNCHANGED <<storeVars, queueVars, agentAVars, agentBVars, running,
                   mainPc, histVars, harnessVars>>
    /\ UNCHANGED <<report, is_valid, excA, dateLog, supLog>>

\* get_verification_task: the get() call, then "if lead" enters process_lead
A_Get ==
    /\ pc["agent_a"] = "get"
    /\ QGetEnabled(verification_queue)
    /\ leadA' = <<QGetItem(verification_queue)>>
    /\ verification_queue' = QGetRest(verification_queue)
    /\ pc' = [pc EXCEPT !["agent_a"] = "verifying"]
    /\ UNCHANGED <<storeVars, outreach_queue, verification_status, agentBVars,
                   running, mainPc, histVars, harnessVars>>
    /\ UNCHANGED <<report, is_valid, excA, dateLog, supLog>>

\* process_lead: update_lead(.., {"Processing Status": "Verifying"})
A_MarkVerifying(ok) ==
    /\ pc["agent_a"] = "verifying"
    /\ IF ok
       THEN /\ WriteLead(leadA[1], ("Processing Status" :> "Verifying"))
            /\ pc' = [pc EXCEPT !["agent_a"] = "validate"]
       ELSE /\ pc' = [pc EXCEPT !["agent_a"] = "except"]
            /\ UNCHANGED <<sheet, statusLog, dateLog>>
    /\ UNCHANGED <<last_processed_row, queueVars, agentAVars, agentBVars,
                   running, mainPc, sendLog, enqCount, harnessVars>>
    /\ excA' = IF ok THEN excA ELSE excA \cup {leadA[1].index}
    /\ UNCHANGED <<report, is_valid, supLog>>

\* process_lead: validate_email, perform_additional_checks, verification_status
A_Validate(mx) ==
    /\ pc["agent_a"] = "validate"
    /\ IF ValidationRaises(leadA[1].data)
       THEN /\ pc' = [pc EXCEPT !["agent_a"] = "except"]
            /\ UNCHANGED verification_status
       ELSE /\ verification_status' = VerificationStatus(leadA[1].data, mx)
            /\ pc' = [pc EXCEPT !["agent_a"] = "verified"]
    /\ UNCHANGED <<storeVars, queueVars, leadA, agentBVars, running, mainPc,
                   histVars, harnessVars>>
    /\ is_valid' = IF ValidationRaises(leadA[1].data) THEN is_valid
                   ELSE validate(leadA[1].data["Email"], mx)
    /\ excA' = IF ValidationRaises(leadA[1].data)
               THEN excA \cup {leadA[1].index} ELSE excA
    /\ UNCHANGED <<report, dateLog, supLog>>

\* the outreach hand-over: if verification_status == "Y": add_outreach_task
ForwardsAlways(status) == TRUE
Forwards(status) == status = "Y"

\* process_lead with the hand-over to outreach made before the result write
A_MarkVerifiedEarly(ok) ==
    /\ pc["agent_a"] = "verified"
    /\ outreach_queue' = IF Forwards(verification_status)
                         THEN QPut(outreach_queue, leadA[1])
                         ELSE outreach_queue
    /\ IF ok
       THEN /\ WriteLead(leadA[1],
                   ("Email Verified (Y/N)" :> verification_status) @@
                   ("Processing Status" :> "Verified") @@
                   ("Verification Date" :> "now"))
            /\ pc' = [pc EXCEPT !["agent_a"] = "check"]
            /\ leadA' = <<>>
            /\ verification_status' = ""
       ELSE /\ pc' = [pc EXCEPT !["agent_a"] = "except"]
            /\ UNCHANGED <<sheet, statusLog, dateLog, leadA, verification_status>>
    /\ UNCHANGED <<last_processed_row, verification_queue,
                   agentBVars, running, mainPc, sendLog, enqCount, harnessVars>>
    /\ is_valid' = IF ok THEN FALSE ELSE is_valid
    /\ excA' = IF ok THEN excA ELSE excA \cup {leadA[1].index}
    /\ UNCHANGED <<report, supLog>>

\* process_lead: the result write, then the hand-over to outreach
A_MarkVerified(ok) ==
    /\ pc["agent_a"] = "verified"
    /\ IF ok
       THEN /\ WriteLead(leadA[1],
                   ("Email Verified (Y/N)" :> verification_status) @@
                   ("Processing Status" :> "Verified") @@
                   ("Verification Date" :> "now"))
            /\ outreach_queue' = IF Forwards(verification_status)
                                 THEN QPut(outreach_queue, leadA[1])
                                 ELSE outreach_queue
            /\ pc' = [pc EXCEPT !["agent_a"] = "check"]
            /\ leadA' = <<>>
            /\ verification_status' = ""
       ELSE /\ pc' = [pc EXCEPT !["agent_a"] = "except"]
            /\ UNCHANGED <<sheet, statusLog, dateLog, outreach_queue, leadA, verification_status>>
    /\ UNCHANGED <<last_processed_row, verification_queue,
                   agentBVars, running, mainPc, sendLog, enqCount, harnessVars>>
    /\ is_valid' = IF ok THEN FALSE ELSE is_valid
    /\ excA' = IF ok THEN excA ELSE excA \cup {leadA[1].index}
    /\ UNCHANGED <<report, supLog>>

\* process_lead: the except handler; its own update_lead is unguarded
A_Except(ok) ==
    /\ pc["agent_a"] = "except"
    /\ IF ok
       THEN /\ WriteLead(leadA[1],
                   ("Processing Status" :> "Error") @@
                   ("Notes" :> "Verification failed: error"))
            /\ pc' = [pc EXCEPT !["agent_a"] = "check"]
       ELSE /\ pc' = [pc EXCEPT !["agent_a"] = "crashed"]
            /\ UNCHANGED <<sheet, statusLog, dateLog>>
    /\ leadA' = <<>>
    /\ verification_status' = ""
    /\ UNCHANGED <<last_processed_row, queueVars,
                   agentBVars, running, mainPc, sendLog, enqCount, harnessVars>>
    /\ is_valid' = FALSE
    /\ UNCHANGED <<report, excA, supLog>>

(* ------------------------------- AgentB -------------------------------- *)
\* send_email called for a lead; ok is what it returns
Send(lead, ok) ==
    sendLog' = [sendLog EXCEPT ![lead.index] = Append(@, ok)]

\* start_processing: self.running = True
B_Start ==
    /\ pc["agent_b"] = "start"
    /\ running' = [running EXCEPT !["agent_b"] = TRUE]
    /\ pc' = [pc EXCEPT !["agent_b"] = "check"]
    /\ UNCHANGED <<storeVars, queueVars, agentAVars, agentBVars, mainPc,
                   histVars, harnessVars>>
    /\ UNCHANGED <<report, is_valid, excA, dateLog, supLog>>

\* start_processing going to get_outreach_task without process_retry_queue
B_CheckNoDrain ==
    /\ pc["agent_b"] = "check"
    /\ pc' = [pc EXCEPT !["agent_b"] =
                 IF running["agent_b"] THEN "poll" ELSE "done"]
    /\ UNCHANGED <<storeVars, queueVars, agentAVars, agentBVars, running,
                   mainPc, histVars, harnessVars>>
    /\ UNCHANGED <<report, is_valid, excA, dateLog, supLog>>

\* start_processing: while self.running, then into process_retry_queue
B_Check ==
    /\ pc["agent_b"] = "check"
    /\ pc' = [pc EXCEPT !["agent_b"] =
                 IF running["agent_b"] THEN "retry" ELSE "done"]
    /\ UNCHANGED <<storeVars, queueVars, agentAVars, agentBVars, running,
                   mainPc, histVars, harnessVars>>
    /\ UNCHANGED <<report, is_valid, excA, dateLog, supLog>>

\* process_retry_queue: "if attempts < 3"
MayRetryInclusive(attempts) == attempts <= MaxAttempts
MayRetryAlways(attempts) == TRUE
MayRetry(attempts) == attempts < MaxAttempts

\* process_retry_queue re-buffering the lead whatever the send returned
B_RetryRequeue(ok) ==
    /\ pc["agent_b"] = "retry"
    /\ IF QEmpty(retry_queue)
       THEN /\ pc' = [pc EXCEPT !["agent_b"] = "poll"]
            /\ UNCHANGED <<retry_queue, sendLog>>
       ELSE LET entry == QGetItem(retry_queue)
                lead == entry[1]
                attempts == entry[2]
                rest == QGetRest(retry_queue)
            IN  /\ pc' = pc
                /\ IF MayRetry(attempts)
                   THEN /\ Send(lead, ok)
                        /\ retry_queue' = QPut(rest, <<lead, attempts + 1>>)
                   ELSE /\ retry_queue' = rest
                        /\ UNCHANGED sendLog
    /\ UNCHANGED <<storeVars, queueVars, agentAVars, leadB, running, mainPc,
                   statusLog, enqCount, harnessVars>>
    /\ UNCHANGED <<report, is_valid, excA, dateLog, supLog>>

\* process_retry_queue leaving the drain after a single entry
B_RetryOnce(ok) ==
    /\ pc["agent_b"] = "retry"
    /\ pc' = [pc EXCEPT !["agent_b"] = "poll"]
    /\ IF QEmpty(retry_queue)
       THEN UNCHANGED <<retry_queue, sendLog>>
       ELSE LET entry == QGetItem(retry_queue)
                lead == entry[1]
                attempts == entry[2]
                rest == QGetRest(retry_queue)
            IN  IF MayRetry(attempts)
                THEN /\ Send(lead, ok)
                     /\ retry_queue' = IF ok THEN rest
                                       ELSE QPut(rest, <<lead, attempts + 1>>)
                ELSE /\ retry_queue' = rest
                     /\ UNCHANGED sendLog
    /\ UNCHANGED <<storeVars, queueVars, agentAVars, leadB, running, mainPc,
                   statusLog, enqCount, harnessVars>>
    /\ UNCHANGED <<report, is_valid, excA, dateLog, supLog>>

\* process_retry_queue: one pass of "while not self.retry_queue.empty()"
B_Retry(ok) ==
    /\ pc["agent_b"] = "retry"
    /\ IF QEmpty(retry_queue)
       THEN /\ pc' = [pc EXCEPT !["agent_b"] = "poll"]
            /\ UNCHANGED <<retry_queue, sendLog>>
       ELSE LET entry == QGetItem(retry_queue)
                lead == entry[1]
                attempts == entry[2]
                rest == QGetRest(retry_queue)
            IN  /\ pc' = pc
                /\ IF MayRetry(attempts)
                   THEN /\ Send(lead, ok)
                        /\ retry_queue' = IF ok THEN rest
                                          ELSE QPut(rest, <<lead, attempts + 1>>)
                   ELSE /\ retry_queue' = rest
                        /\ UNCHANGED sendLog
    /\ UNCHANGED <<storeVars, queueVars, agentAVars, leadB, running, mainPc,
                   statusLog, enqCount, harnessVars>>
    /\ UNCHANGED <<report, is_valid, excA, dateLog, supLog>>

\* get_outreach_task: the empty() test
B_Poll ==
    /\ pc["agent_b"] = "poll"
    /\ pc' = [pc EXCEPT !["agent_b"] =
                 IF QEmpty(outreach_queue) THEN "check" ELSE "get"]
    /\ UNCHANGED <<storeVars, queueVars, agentAVars, agentBVars, running,
                   mainPc, histVars, harnessVars>>
    /\ UNCHANGED <<report, is_valid, excA, dateLog, supLog>>

\* get_outreach_task: the get() call, then "if lead" enters process_lead
B_Get ==
    /\ pc["agent_b"] = "get"
    /\ QGetEnabled(outreach_queue)
    /\ leadB' = <<QGetItem(outreach_queue)>>
    /\ outreach_queue' = QGetRest(outreach_queue)
    /\ pc' = [pc EXCEPT !["agent_b"] = "outreach"]
    /\ UNCHANGED <<storeVars, verification_queue, agentAVars, retry_queue,
                   running, mainPc, histVars, harnessVars>>
    /\ UNCHANGED <<report, is_valid, excA, dateLog, supLog>>

\* process_lead: update_lead(.., {"Processing Status": "Outreach"})
B_MarkOutreach(ok) ==
    /\ pc["agent_b"] = "outreach"
    /\ IF ok
       THEN /\ WriteLead(leadB[1], ("Processing Status" :> "Outreach"))
            /\ pc' = [pc EXCEPT !["agent_b"] = "send"]
       ELSE /\ pc' = [pc EXCEPT !["agent_b"] = "except"]
            /\ UNCHANGED <<sheet, statusLog, dateLog>>
    /\ UNCHANGED <<last_processed_row, queueVars, agentAVars, agentBVars,
                   running, mainPc, sendLog, enqCount, harnessVars>>
    /\ UNCHANGED <<report, is_valid, excA, supLog>>

\* process_lead without the "return" after a failed send
B_SendFallThrough(ok) ==
    /\ pc["agent_b"] = "send"
    /\ Send(leadB[1], ok)
    /\ retry_queue' = IF ok THEN retry_queue
                      ELSE QPut(retry_queue, <<leadB[1], 1>>)
    /\ pc' = [pc EXCEPT !["agent_b"] = "completed"]
    /\ UNCHANGED leadB
    /\ UNCHANGED <<storeVars, queueVars, agentAVars, running, mainPc,
                   statusLog, enqCount, harnessVars>>
    /\ UNCHANGED <<report, is_valid, excA, dateLog, supLog>>

\* process_lead: send_email; a failed send parks the lead and returns
B_Send(ok) ==
    /\ pc["agent_b"] = "send"
    /\ Send(leadB[1], ok)
    /\ IF ok
       THEN /\ pc' = [pc EXCEPT !["agent_b"] = "completed"]
            /\ UNCHANGED <<retry_queue, leadB>>
       ELSE /\ retry_queue' = QPut(retry_queue, <<leadB[1], 1>>)
            /\ pc' = [pc EXCEPT !["agent_b"] = "check"]
            /\ leadB' = <<>>
    /\ UNCHANGED <<storeVars, queueVars, agentAVars, running, mainPc,
                   statusLog, enqCount, harnessVars>>
    /\ UNCHANGED <<report, is_valid, excA, dateLog, supLog>>

\* process_lead: the write after a successful send
B_MarkCompleted(ok) ==
    /\ pc["agent_b"] = "completed"
    /\ IF ok
       THEN /\ WriteLead(leadB[1],
                   ("Processing Status" :> "Completed") @@
                   ("Response Status" :> "Pending Response") @@
                   ("Outreach Date" :> "now"))
            /\ pc' = [pc EXCEPT !["agent_b"] = "check"]
            /\ leadB' = <<>>
       ELSE /\ pc' = [pc EXCEPT !["agent_b"] = "except"]
            /\ UNCHANGED <<sheet, statusLog, dateLog, leadB>>
    /\ UNCHANGED <<last_processed_row, queueVars, agentAVars, retry_queue,
                   running, mainPc, sendLog, enqCount, harnessVars>>
    /\ UNCHANGED <<report, is_valid, excA, supLog>>

\* process_lead: the except handler; its own update_lead is unguarded
B_Except(ok) ==
    /\ pc["agent_b"] = "except"
    /\ IF ok
       THEN /\ WriteLead(leadB[1],
                   ("Processing Status" :> "Error") @@
                   ("Notes" :> "Outreach failed: error"))
            /\ pc' = [pc EXCEPT !["agent_b"] = "check"]
       ELSE /\ pc' = [pc EXCEPT !["agent_b"] = "crashed"]
            /\ UNCHANGED <<sheet, statusLog, dateLog>>
    /\ leadB' = <<>>
    /\ UNCHANGED <<last_processed_row, queueVars, agentAVars, retry_queue,
                   running, mainPc, sendLog, enqCount, harnessVars>>
    /\ UNCHANGED <<report, is_valid, excA, supLog>>

(* -------------------------------- main --------------------------------- *)
\* KeyboardInterrupt in the scheduler loop: supervisor.running = False
M_StopSupervisor ==
    /\ mainPc = "run"
    /\ running' = [running EXCEPT !["supervisor"] = FALSE]
    /\ mainPc' = "stop_a"
    /\ UNCHANGED <<storeVars, queueVars, agentAVars, agentBVars, pc,
                   histVars, harnessVars>>
    /\ UNCHANGED <<report, is_valid, excA, dateLog, supLog>>

\* agent_a.running = False
M_StopAgentA ==
    /\ mainPc = "stop_a"
    /\ running' = [running EXCEPT !["agent_a"] = FALSE]
    /\ mainPc' = "stop_b"
    /\ UNCHANGED <<storeVars, queueVars, agentAVars, agentBVars, pc,
                   histVars, harnessVars>>
    /\ UNCHANGED <<report, is_valid, excA, dateLog, supLog>>

\* agent_b.running = False
M_StopAgentB ==
    /\ mainPc = "stop_b"
    /\ running' = [running EXCEPT !["agent_b"] = FALSE]
    /\ mainPc' = "join"
    /\ UNCHANGED <<storeVars, queueVars, agentAVars, agentBVars, pc,
                   histVars, harnessVars>>
    /\ UNCHANGED <<report, is_valid, excA, dateLog, supLog>>

\* a thread that returned from its target or died of an exception
Terminated(w) == pc[w] \in {"done", "crashed"}

\* for thread in threads: thread.join()
M_Join ==
    /\ mainPc = "join"
    /\ \A w \in Workers : Terminated(w)
    /\ mainPc' = "exited"
    /\ UNCHANGED <<storeVars, queueVars, agentAVars, agentBVars, running, pc,
                   histVars, harnessVars>>
    /\ UNCHANGED <<report, is_valid, excA, dateLog, supLog>>

(* ---------------- TaskQueue under concurrent callers -------------------- *)
\* the lead a harness producer enqueues; index numbers the put calls
TotalPuts == nPuts["p1"] + nPuts["p2"]
HarnessLead == [index |-> TotalPuts,
                data |-> MkData("ann@acme.io", "Acme", "Retail", "555-1") @@ BlankStatus]

\* add_verification_task(lead) called by producer p
H_AddVerificationTask(p) ==
    /\ TotalPuts < MaxPuts
    /\ verification_queue' = QPut(verification_queue, HarnessLead)
    /\ enqLog' = [enqLog EXCEPT !["verification"] = Append(@, HarnessLead.index)]
    /\ nPuts' = [nPuts EXCEPT ![p] = @ + 1]
    /\ UNCHANGED <<storeVars, outreach_queue, agentAVars, agentBVars,
                   threadVars, histVars, hpc, deqLog, got, lastResult>>
    /\ UNCHANGED <<report, is_valid, excA, dateLog, supLog>>

\* add_outreach_task(lead) called by producer p
H_AddOutreachTask(p) ==
    /\ TotalPuts < MaxPuts
    /\ outreach_queue' = QPut(outreach_queue, HarnessLead)
    /\ enqLog' = [enqLog EXCEPT !["outreach"] = Append(@, HarnessLead.index)]
    /\ nPuts' = [nPuts EXCEPT ![p] = @ + 1]
    /\ UNCHANGED <<storeVars, verification_queue, agentAVars, agentBVars,
                   threadVars, histVars, hpc, deqLog, got, lastResult>>
    /\ UNCHANGED <<report, is_valid, excA, dateLog, supLog>>

\* get_verification_task called by consumer c: the empty() test
H_PollVerification(c) ==
    /\ hpc[c] = "idle"
    /\ IF QEmpty(verification_queue)
       THEN /\ lastResult' = [lastResult EXCEPT ![c] = "None"]
            /\ UNCHANGED hpc
       ELSE /\ hpc' = [hpc EXCEPT ![c] = "get_verification"]
            /\ UNCHANGED lastResult
    /\ UNCHANGED <<storeVars, queueVars, agentAVars, agentBVars, threadVars,
                   histVars, enqLog, deqLog, got, nPuts>>
    /\ UNCHANGED <<report, is_valid, excA, dateLog, supLog>>

\* get_verification_task called by consumer c: the get() call
H_GetVerification(c) ==
    /\ hpc[c] = "get_verification"
    /\ QGetEnabled(verification_queue)
    /\ verification_queue' = QGetRest(verification_queue)
    /\ deqLog' = [deqLog EXCEPT !["verification"] =
                     Append(@, QGetItem(verification_queue).index)]
    /\ got' = [got EXCEPT ![c] = Append(@, QGetItem(verification_queue).index)]
    /\ lastResult' = [lastResult EXCEPT ![c] = "lead"]
    /\ hpc' = [hpc EXCEPT ![c] = "idle"]
    /\ UNCHANGED <<storeVars, outreach_queue, agentAVars, agentBVars,
                   threadVars, histVars, enqLog, nPuts>>
    /\ UNCHANGED <<report, is_valid, excA, dateLog, supLog>>

\* get_outreach_task called by consumer c: the empty() test
H_PollOutreach(c) ==
    /\ hpc[c] = "idle"
    /\ IF QEmpty(outreach_queue)
       THEN /\ lastResult' = [lastResult EXCEPT ![c] = "None"]
            /\ UNCHANGED hpc
       ELSE /\ hpc' = [hpc EXCEPT ![c] = "get_outreach"]
            /\ UNCHANGED lastResult
    /\ UNCHANGED <<storeVars, queueVars, agentAVars, agentBVars, threadVars,
                   histVars, enqLog, deqLog, got, nPuts>>
    /\ UNCHANGED <<report, is_valid, excA, dateLog, supLog>>

\* get_outreach_task called by consumer c: the get() call
H_GetOutreach(c) ==
    /\ hpc[c] = "get_outreach"
    /\ QGetEnabled(outreach_queue)
    /\ outreach_queue' = QGetRest(outreach_queue)
    /\ deqLog' = [deqLog EXCEPT !["outreach"] =
                     Append(@, QGetItem(outreach_queue).index)]
    /\ got' = [got EXCEPT ![c] = Append(@, QGetItem(outreach_queue).index)]
    /\ lastResult' = [lastResult EXCEPT ![c] = "lead"]
    /\ hpc' = [hpc EXCEPT ![c] = "idle"]
    /\ UNCHANGED <<storeVars, verification_queue, agentAVars, agentBVars,
                   threadVars, histVars, enqLog, nPuts>>
    /\ UNCHANGED <<report, is_valid, excA, dateLog, supLog>>

(* --------------------------- specifications ---------------------------- *)
\* the three worker threads and the worksheet's users while main stays in its
\* scheduler loop (no KeyboardInterrupt arrives)
NextRunning ==
    \/ \E row \in NewRows : AppendRow(row)
    \/ S_Start
    \/ S_Check
    \/ \E ok \in BOOLEAN : S_MonitorNewLeads(ok)
    \/ \E ok \in BOOLEAN : S_MonitorEmailTasks(ok)
    \/ A_Start
    \/ A_Check
    \/ A_Poll
    \/ A_Get
    \/ \E ok \in BOOLEAN : A_MarkVerifying(ok)
    \/ \E mx \in BOOLEAN : A_Validate(mx)
    \/ \E ok \in BOOLEAN : A_MarkVerified(ok)
    \/ \E ok \in BOOLEAN : A_Except(ok)
    \/ B_Start
    \/ B_Check
    \/ \E ok \in BOOLEAN : B_Retry(ok)
    \/ B_Poll
    \/ B_Get
    \/ \E ok \in BOOLEAN : B_MarkOutreach(ok)
    \/ \E ok \in BOOLEAN : B_Send(ok)
    \/ \E ok \in BOOLEAN : B_MarkCompleted(ok)
    \/ \E ok \in BOOLEAN : B_Except(ok)

SpecRunning == Init /\ [][NextRunning]_vars

\* the whole program: the above, and main's shutdown on KeyboardInterrupt.
\* The shutdown only ends worker loops at their "while self.running" test,
\* which the workers' other steps cannot tell from a thread that is not
\* scheduled again.
Next ==
    \/ NextRunning
    \/ M_StopSupervisor
    \/ M_StopAgentA
    \/ M_StopAgentB
    \/ M_Join

Spec == Init /\ [][Next]_vars

\* the TaskQueue alone, called by two producers and two consumers
NextTQ ==
    \/ \E p \in Producers : H_AddVerificationTask(p)
    \/ \E p \in Producers : H_AddOutreachTask(p)
    \/ \E c \in Consumers : H_PollVerification(c)
    \/ \E c \in Consumers : H_GetVerification(c)
    \/ \E c \in Consumers : H_PollOutreach(c)
    \/ \E c \in Consumers : H_GetOutreach(c)

SpecTQ == Init /\ [][NextTQ]_vars

(* ------------------------- notions used by the claims ------------------ *)
\* the rows that exist, by record index
Rows == {i \in Indices : i < Len(sheet)}
Cell(i, col) == sheet[i + 1][col]

InQueue(q, i) == \E k \in 1..Len(q) : q[k].index = i
Held(cur, i) == cur # <<>> /\ cur[1].index = i
InRetry(i) == \E k \in 1..Len(retry_queue) : retry_queue[k][1].index = i

\* an outreach task for index i exists somewhere in the outreach stage
OutreachTask(i) == InQueue(outreach_queue, i) \/ Held(leadB, i) \/ InRetry(i)

\* s is an initial segment of t
IsPrefix(s, t) == Len(s) <= Len(t) /\ \A k \in 1..Len(s) : s[k] = t[k]

\* number of positions of sequence s holding x
Occurrences(s, x) == Cardinality({k \in 1..Len(s) : s[k] = x})

QueueIndices(q) == [k \in 1..Len(q) |-> q[k].index]
ChannelQueue(ch) == IF ch = "verification" THEN verification_queue ELSE outreach_queue

\* main has executed "<worker>.running = False"
FlagCleared(w) ==
    CASE w = "supervisor" -> mainPc \in {"stop_a", "stop_b", "join", "exited"}
      [] w = "agent_a" -> mainPc \in {"stop_b", "join", "exited"}
      [] w = "agent_b" -> mainPc \in {"join", "exited"}

(* -------------------------------- C1 ----------------------------------- *)
\* C1: a lead whose delivery failed on the first one or two attempts and then
\* succeeded on an attempt made from the retry buffer ends with Processing
\* Status Completed and Response Status Pending Response.
C1_RetrySuccessCompletes ==
    \A i \in Rows :
        sendLog[i] \in {<<FALSE, TRUE>>, <<FALSE, FALSE, TRUE>>} =>
            /\ Cell(i, "Processing Status") = "Completed"
            /\ Cell(i, "Response Status") = "Pending Response"

(* -------------------------------- C2 ----------------------------------- *)
\* C2: no lead is sent to more than three times, and once the drain of the
\* retry buffer has returned, a lead that has used its three attempts is no
\* longer in the retry buffer.
C2_AtMostThreeAttempts ==
    \A i \in Indices :
        /\ Len(sendLog[i]) <= MaxAttempts
        /\ (InRetry(i) /\ pc["agent_b"] # "retry") => Len(sendLog[i]) < MaxAttempts

\* three failed sends for one lead, dropped from the buffer by the drain
C2_Witness ==
    \E i \in Rows :
        /\ sendLog[i] = <<FALSE, FALSE, FALSE>>
        /\ ~InRetry(i)
        /\ pc["agent_b"] = "poll"

(* -------------------------------- C3 ----------------------------------- *)
\* C3: an outreach task exists (in the outreach channel, in the outreach
\* worker's hands or in the retry buffer) only for a lead whose Email
\* Verified cell is Y; a lead Verified with N never has an outreach task.
C3_OutreachOnlyIfVerifiedY ==
    \A i \in Indices :
        OutreachTask(i) => (i \in Rows /\ Cell(i, "Email Verified (Y/N)") = "Y")

\* the verification worker has rejected one lead while another is in outreach
C3_Witness ==
    \E i, j \in Rows :
        /\ statusLog[i] = <<"Verifying", "Verified">>
        /\ Cell(i, "Email Verified (Y/N)") = "N"
        /\ ~OutreachTask(i)
        /\ OutreachTask(j)

(* -------------------------------- C4 ----------------------------------- *)
\* C4: last_processed_row never decreases, a discovery cycle enqueues only
\* records whose row lies above the mark it started from, and no index is
\* enqueued for verification more than once.
C4_HighWaterMark ==
    [][ /\ last_processed_row' >= last_processed_row
        /\ \A i \in Indices :
              enqCount'[i] # enqCount[i] =>
                  /\ i + RowOffset > last_processed_row
                  /\ enqCount'[i] = 1 ]_vars

\* a later discovery cycle is about to run over a row at or below the mark
\* that already was enqueued and still has an empty Processing Status
C4_Witness ==
    /\ pc["supervisor"] = "leads"
    /\ last_processed_row > InitialRow
    /\ \E i \in Rows :
          /\ enqCount[i] = 1
          /\ i + RowOffset <= last_processed_row
          /\ Cell(i, "Processing Status") = ""
    /\ \E j \in Rows : enqCount[j] = 0 /\ Cell(j, "Processing Status") = ""

(* -------------------------------- C5 ----------------------------------- *)
\* C5: on each channel the leads are dequeued in the order in which their
\* puts took effect, whichever producer made them: the dequeue order is an
\* initial segment of the enqueue order, and what was enqueued is exactly
\* what was dequeued followed by what is still queued.
C5_FifoPerChannel ==
    \A ch \in Channels :
        /\ IsPrefix(deqLog[ch], enqLog[ch])
        /\ enqLog[ch] = deqLog[ch] \o QueueIndices(ChannelQueue(ch))

\* both producers have put, and one channel has delivered two leads
C5_Witness ==
    /\ \A p \in Producers : nPuts[p] > 0
    /\ \E ch \in Channels : Len(deqLog[ch]) >= 2

(* -------------------------------- C6 ----------------------------------- *)
\* C6: a call of get_verification_task or get_outreach_task never waits for
\* a future enqueue: a caller that has reached the get() finds an item.
C6_DequeueNeverBlocks ==
    \A c \in Consumers :
        /\ hpc[c] = "get_verification" => QGetEnabled(verification_queue)
        /\ hpc[c] = "get_outreach" => QGetEnabled(outreach_queue)

(* -------------------------------- C7 ----------------------------------- *)
\* C7: with two producers and two consumers, every lead that was enqueued is
\* either still queued exactly once, or was returned by exactly one dequeue
\* call; it is never returned twice and never disappears.
C7_ExactlyOnce ==
    \A n \in 0..(MaxPuts - 1) :
        LET queued == Occurrences(QueueIndices(verification_queue), n)
                      + Occurrences(QueueIndices(outreach_queue), n)
            returned == Occurrences(got["c1"], n) + Occurrences(got["c2"], n)
        IN  queued + returned = IF n < TotalPuts THEN 1 ELSE 0

\* both producers have put and both consumers have been handed a lead
C7_Witness ==
    /\ \A p \in Producers : nPuts[p] > 0
    /\ \A c \in Consumers : got[c] # <<>>

(* -------------------------------- C8 ----------------------------------- *)
\* the walk unset -> Verifying -> Verified -> Outreach -> Completed
NextStatus(prev) ==
    CASE prev = "" -> "Verifying"
      [] prev = "Verifying" -> "Verified"
      [] prev = "Verified" -> "Outreach"
      [] prev = "Outreach" -> "Completed"
      [] OTHER -> "-"

ValidStep(prev, cur) ==
    \/ cur = NextStatus(prev)
    \/ cur = "Error" /\ prev \notin {"Error", "Completed"}

\* C8: the Processing Status values written for one lead follow the walk
\* unset -> Verifying -> Verified -> Outreach -> Completed one step at a
\* time, except that Error may follow any non-terminal status; nothing is
\* written after Error or Completed, and the store holds the last write.
C8_StatusWalk ==
    \A i \in Indices :
        /\ \A k \in 1..Len(statusLog[i]) :
              ValidStep(IF k = 1 THEN "" ELSE statusLog[i][k - 1], statusLog[i][k])
        /\ statusLog[i] # <<>> =>
              (i \in Rows /\ Cell(i, "Processing Status") = statusLog[i][Len(statusLog[i])])

\* one lead has walked to Completed, another went to Error from Outreach
C8_Witness ==
    \E i, j \in Rows :
        /\ statusLog[i] = <<"Verifying", "Verified", "Outreach", "Completed">>
        /\ statusLog[j] = <<"Verifying", "Verified", "Outreach", "Error">>

(* -------------------------------- C9 ----------------------------------- *)
\* C9: whatever raises while a worker processes a lead, process_lead returns
\* normally: neither worker thread is ever terminated by an exception.
C9_WorkersSurvive ==
    /\ pc["agent_a"] # "crashed"
    /\ pc["agent_b"] # "crashed"

(* -------------------------------- C10 ---------------------------------- *)
\* C10: once main has set a worker's running flag to False, the worker's next
\* test of "while self.running" ends its loop.
C10_StoppedWorkersExit ==
    \A w \in Workers :
        (FlagCleared(w) /\ pc[w] = "check") => ~running[w]

(* ======================== Supervisor.generate_report =================== *)
\* dict.get(key, default)
DictGet(d, key, default) == IF key \in DOMAIN d THEN d[key] ELSE default

\* generate_report: the three response buckets, all at 0
ResponseBuckets == {"Interested", "Not Interested", "No Response"}

\* generate_report: sum(1 for l in leads if l.get("Email Verified (Y/N)") == "Y")
RECURSIVE CountVerified(_)
CountVerified(leads) ==
    IF leads = <<>> THEN 0
    ELSE (IF DictGet(Head(leads), "Email Verified (Y/N)", "None") = "Y" THEN 1 ELSE 0)
         + CountVerified(Tail(leads))

\* generate_report: if status in report["responses"]: ... += 1
TallyStepLoose(responses, status) ==
    IF status \in DOMAIN responses
    THEN [responses EXCEPT ![status] = @ + 1]
    ELSE [responses EXCEPT !["No Response"] = @ + 1]
TallyStep(responses, status) ==
    IF status \in DOMAIN responses
    THEN [responses EXCEPT ![status] = @ + 1]
    ELSE responses

\* generate_report: the loop over the leads
RECURSIVE Tally(_, _)
Tally(leads, responses) ==
    IF leads = <<>> THEN responses
    ELSE Tally(Tail(leads),
               TallyStep(responses,
                         DictGet(Head(leads), "Response Status", "No Response")))

generate_report(leads) ==
    [total_leads |-> Len(leads),
     verified |-> CountVerified(leads),
     responses |-> Tally(leads, [b \in ResponseBuckets |-> 0])]

\* records a worksheet may hold when the report is taken
ReportRows ==
    { [MkData("ann@acme.io", "Acme", "Retail", "555-1") @@ BlankStatus
          EXCEPT !["Email Verified (Y/N)"] = ev, !["Response Status"] = rs] :
        ev \in {"", "Y", "N"},
        rs \in {"", "Pending Response", "Interested", "Not Interested", "No Response"} }

\* any worksheet of at most MaxRows records, nothing else started
InitReport ==
    /\ sheet \in UNION {[1..n -> ReportRows] : n \in 0..MaxRows}
    /\ last_processed_row = InitialRow
    /\ verification_queue = <<>>
    /\ outreach_queue = <<>>
    /\ retry_queue = <<>>
    /\ running = [w \in Workers |-> FALSE]
    /\ pc = [w \in Workers |-> "start"]
    /\ mainPc = "run"
    /\ leadA = <<>>
    /\ verification_status = ""
    /\ leadB = <<>>
    /\ statusLog = [i \in Indices |-> <<>>]
    /\ sendLog = [i \in Indices |-> <<>>]
    /\ enqCount = [i \in Indices |-> 0]
    /\ hpc = [c \in Consumers |-> "idle"]
    /\ enqLog = [ch \in Channels |-> <<>>]
    /\ deqLog = [ch \in Channels |-> <<>>]
    /\ got = [c \in Consumers |-> <<>>]
    /\ lastResult = [c \in Consumers |-> "-"]
    /\ nPuts = [p \in Producers |-> 0]
    /\ is_valid = FALSE
    /\ excA = {}
    /\ dateLog = [i \in Indices |-> <<>>]
    /\ supLog = [leads |-> "-", emails |-> "-"]
    /\ report = <<>>

\* send_report: report = self.generate_report()
GenerateReport ==
    /\ report = <<>>
    /\ report' = <<generate_report(sheet)>>
    /\ UNCHANGED <<storeVars, queueVars, agentAVars, agentBVars, threadVars,
                   histVars, harnessVars, is_valid, excA, dateLog, supLog>>

NextReport == GenerateReport

SpecReport == InitReport /\ [][NextReport]_vars

(* -------------------------------- C11 ---------------------------------- *)
\* C11: the report's total_leads is the number of records, verified is the
\* number of records whose Email Verified cell is Y, and the responses are
\* exactly the buckets Interested / Not Interested / No Response, each
\* counting the records whose Response Status is that bucket's name; records
\* with any other Response Status are in no bucket, so the buckets sum to at
\* most total_leads.
C11_ReportTally ==
    report # <<>> =>
        LET r == report[1]
            n(col, v) == Cardinality({k \in 1..Len(sheet) : sheet[k][col] = v})
        IN  /\ r.total_leads = Len(sheet)
            /\ r.verified = n("Email Verified (Y/N)", "Y")
            /\ DOMAIN r.responses = {"Interested", "Not Interested", "No Response"}
            /\ r.responses["Interested"] = n("Response Status", "Interested")
            /\ r.responses["Not Interested"] = n("Response Status", "Not Interested")
            /\ r.responses["No Response"] = n("Response Status", "No Response")
            /\ r.responses["Interested"] + r.responses["Not Interested"]
                   + r.responses["No Response"] <= r.total_leads

\* a report over a sheet holding a Pending Response record and an Interested
\* one: the buckets sum to less than total_leads
C11_Witness ==
    /\ report # <<>>
    /\ \E k \in 1..Len(sheet) : sheet[k]["Response Status"] = "Pending Response"
    /\ report[1].responses["Interested"] = 1
    /\ report[1].responses["Interested"] + report[1].responses["Not Interested"]
           + report[1].responses["No Response"] < report[1].total_leads

(* =================== the verification rules, lead by lead =============== *)
\* lead data exercising each rule of AgentA.process_lead
VerifyData ==
    { MkData("ann@acme.io", "Acme", "Retail", "555-1"),
      MkData("a@test.com", "Test Company", "Retail", "555-1"),
      MkData("ann@acme.io", "Test Company", "Retail", "555-1"),
      MkData("bad-email", "Acme", "Retail", "555-1"),
      MkData("ann@Test.com", "Acme", "Retail", "555-1"),
      MkData("ann@acme.io", "Acme", "Direct Competitor", "555-1"),
      MkData("ann@acme.io", "Acme", "competitor", "555-1"),
      MkData("ann@acme.io", "Acme", "Retail", ""),
      MkData("ann@acme.io", "", "Retail", "555-1"),
      MkData("", "Acme", "Retail", "555-1"),
      MkData("12345", "Acme", "Retail", "555-1") }

\* what a user may change the data cells of an existing row to
EditedData ==
    { MkData("ann@acme.io", "Acme", "Retail", "555-1"),
      MkData("ann@acme.io", "Test Company", "Retail", "555-1") }

\* a user appends a row with any of the lead data above
AppendVerifyRow(data) ==
    /\ Len(sheet) < MaxVerifyRows
    /\ sheet' = Append(sheet, data @@ BlankStatus)
    /\ UNCHANGED <<last_processed_row, queueVars, agentAVars, agentBVars,
                   threadVars, histVars, harnessVars, is_valid, excA, dateLog,
                   supLog, report>>

\* a user overwrites the data cells of row k of the worksheet
EditRow(k, data) ==
    /\ k \in 1..Len(sheet)
    /\ sheet' = [sheet EXCEPT ![k] = [c \in DOMAIN @ |->
                                         IF c \in DOMAIN data THEN data[c] ELSE @[c]]]
    /\ UNCHANGED <<last_processed_row, queueVars, agentAVars, agentBVars,
                   threadVars, histVars, harnessVars, is_valid, excA, dateLog,
                   supLog, report>>

\* discovery and verification over a worksheet whose rows users add and edit
NextVerify ==
    \/ \E data \in VerifyData : AppendVerifyRow(data)
    \/ \E k \in 1..MaxVerifyRows, data \in EditedData : EditRow(k, data)
    \/ S_Start
    \/ S_Check
    \/ \E ok \in BOOLEAN : S_MonitorNewLeads(ok)
    \/ \E ok \in BOOLEAN : S_MonitorEmailTasks(ok)
    \/ A_Start
    \/ A_Check
    \/ A_Poll
    \/ A_Get
    \/ \E ok \in BOOLEAN : A_MarkVerifying(ok)
    \/ \E mx \in BOOLEAN : A_Validate(mx)
    \/ \E ok \in BOOLEAN : A_MarkVerified(ok)
    \/ \E ok \in BOOLEAN : A_Except(ok)

SpecVerify == Init /\ [][NextVerify]_vars

(* -------------------------------- C12 ---------------------------------- *)
\* C12: the validator accepts only what the task's snapshot holds as Email,
\* and when the result write is made, Email Verified becomes Y exactly if the
\* validator accepted and the snapshot's Industry is no (direct) competitor
\* in any letter case, its Company is not "test company" in any letter case,
\* and its Email, Company and Contact Number are non-empty; otherwise N.  The
\* cells the store holds at that moment play no part.
C12_VerificationDecision ==
    [][ /\ (pc["agent_a"] = "validate" /\ pc'["agent_a"] = "verified") =>
               (is_valid' => leadA[1].data["Email"] = "ann@acme.io")
        /\ (pc["agent_a"] = "verified" /\ pc'["agent_a"] = "check") =>
               LET d == leadA[1].data
                   passes ==
                       /\ is_valid
                       /\ d["Industry"] \notin {"competitor", "Competitor",
                                                "direct competitor", "Direct Competitor"}
                       /\ d["Company"] \notin {"test company", "Test Company"}
                       /\ d["Email"] # ""
                       /\ d["Company"] # ""
                       /\ d["Contact Number"] # ""
               IN  sheet'[leadA[1].index + 1]["Email Verified (Y/N)"] =
                       IF passes THEN "Y" ELSE "N" ]_vars

\* the validator accepted a lead whose snapshot says "Test Company", the
\* decision is N, and the row has meanwhile been edited to data that passes
C12_Witness ==
    /\ pc["agent_a"] = "verified"
    /\ is_valid
    /\ verification_status = "N"
    /\ leadA[1].data["Company"] = "Test Company"
    /\ Cell(leadA[1].index, "Company") = "Acme"

(* -------------------------------- C13 ---------------------------------- *)
\* C13: a lead whose first three sends all failed is never sent to again, is
\* out of the retry buffer once the drain has handled its last entry, and
\* gets no terminal store update: its Processing Status stays Outreach.
C13_ExhaustedStaysOutreach ==
    \A i \in Rows :
        (Len(sendLog[i]) >= MaxAttempts
            /\ \A k \in 1..MaxAttempts : ~sendLog[i][k]) =>
            /\ Len(sendLog[i]) = MaxAttempts
            /\ Cell(i, "Processing Status") = "Outreach"
            /\ statusLog[i] = <<"Verifying", "Verified", "Outreach">>
            /\ ~InQueue(outreach_queue, i)
            /\ ~Held(leadB, i)
            /\ InRetry(i) =>
                  /\ pc["agent_b"] = "retry"
                  /\ \A k \in 1..Len(retry_queue) :
                        retry_queue[k][1].index = i => retry_queue[k][2] = MaxAttempts

\* a lead with three failed sends is gone from the buffer and the outreach
\* worker is back at the top of its loop
C13_Witness ==
    \E i \in Rows :
        /\ sendLog[i] = <<FALSE, FALSE, FALSE>>
        /\ ~InRetry(i)
        /\ pc["agent_b"] = "check"
        /\ Cell(i, "Processing Status") = "Outreach"

(* -------------------------------- C14 ---------------------------------- *)
\* C14: a lead for which validation or a verification write raised is, once
\* the verification worker has let go of it, at Processing Status Error with
\* a note beginning "Verification failed: ", and it never has an outreach task.
C14_FailedVerificationMarkedError ==
    \A i \in excA :
        /\ ~OutreachTask(i)
        /\ ~Held(leadA, i) =>
              /\ Cell(i, "Processing Status") = "Error"
              /\ Cell(i, "Notes") = "Verification failed: error"

(* -------------------------------- C15 ---------------------------------- *)
\* attempts still open to the entries of a retry buffer
RECURSIVE AttemptsLeft(_)
AttemptsLeft(q) ==
    IF q = <<>> THEN 0
    ELSE (MaxAttempts + 1 - Head(q)[2]) + AttemptsLeft(Tail(q))

\* C15: the outreach worker polls and dequeues fresh tasks only with an empty
\* retry buffer; the drain is left only when the buffer is empty, an entry
\* leaves the buffer only delivered or with its attempts used up, and every
\* pass of the drain lowers the attempts still open, so the drain terminates.
C15_DrainBeforeFresh ==
    [][ /\ pc'["agent_b"] \in {"poll", "get", "outreach", "send", "completed", "except"}
            => retry_queue' = <<>>
        /\ \A k \in 1..Len(retry_queue') : retry_queue'[k][2] \in 1..MaxAttempts
        /\ (pc["agent_b"] = "retry" /\ pc'["agent_b"] # "retry")
            => (retry_queue = <<>> /\ pc'["agent_b"] = "poll")
        /\ (retry_queue # <<>> /\ \E ok \in BOOLEAN : B_Retry(ok))
            => /\ AttemptsLeft(retry_queue') < AttemptsLeft(retry_queue)
               /\ \A i \in Rows :
                     (InRetry(i) /\ ~(InRetry(i))') =>
                         \/ sendLog'[i][Len(sendLog'[i])]
                         \/ Len(sendLog'[i]) = MaxAttempts
      ]_vars

\* a fresh task is about to be dequeued after the buffer held and lost a lead
C15_Witness ==
    /\ pc["agent_b"] = "get"
    /\ retry_queue = <<>>
    /\ \E i \in Rows : sendLog[i] # <<>> /\ ~sendLog[i][1]

(* -------------------------------- C16 ---------------------------------- *)
\* C16: for every lead, at most one store update carries Verification Date
\* and at most one carries Outreach Date.
C16_DatesWrittenOnce ==
    \A i \in Indices :
        /\ Occurrences(dateLog[i], "Verification Date") <= 1
        /\ Occurrences(dateLog[i], "Outreach Date") <= 1

\* a lead has had both of its dates written
C16_Witness ==
    \E i \in Rows :
        /\ dateLog[i] = <<"Verification Date", "Outreach Date">>
        /\ Cell(i, "Verification Date") = "now"
        /\ Cell(i, "Outreach Date") = "now"

(* -------------------------------- C17 ---------------------------------- *)
\* number of tasks for index i in a channel
TasksIn(q, i) == Cardinality({k \in 1..Len(q) : q[k].index = i})

\* number of tasks for index i in the channels, in the retry buffer and in
\* the hands of the two workers
TaskCount(i) ==
    TasksIn(verification_queue, i) + TasksIn(outreach_queue, i)
        + Cardinality({k \in 1..Len(retry_queue) : retry_queue[k][1].index = i})
        + (IF Held(leadA, i) THEN 1 ELSE 0)
        + (IF Held(leadB, i) THEN 1 ELSE 0)

\* C17: for every lead index at most one task exists across the verification
\* channel, the outreach channel, the retry buffer and the workers' hands, so
\* the two workers never have store writes pending for the same lead.
C17_OneTaskPerLead ==
    /\ \A i \in Indices : TaskCount(i) <= 1
    /\ (leadA # <<>> /\ leadB # <<>>) => leadA[1].index # leadB[1].index

\* both workers hold a task with a store write still to make
C17_Witness ==
    /\ pc["agent_a"] = "verified"
    /\ pc["agent_b"] = "completed"
    /\ leadA # <<>> /\ leadB # <<>>
    /\ TaskCount(leadA[1].index) = 1
    /\ TaskCount(leadB[1].index) = 1

(* -------------------------------- C18 ---------------------------------- *)
\* C18: a failed discovery or a failed inbound poll never stops the
\* supervisor: discovery is always followed by the inbound poll of the same
\* cycle, a failed discovery leaves the high-water mark and the verification
\* channel as they were, the poll is always followed by the loop test, and
\* the loop test starts the next cycle while running is true.
C18_SupervisorSurvivesFailures ==
    [][ LET from == pc["supervisor"]
            to == pc'["supervisor"]
        IN  /\ to \in {"start", "check", "leads", "emails", "done"}
            /\ (from = "leads" /\ to # from) =>
                   /\ to = "emails"
                   /\ supLog'.leads = "failed" =>
                          /\ last_processed_row' = last_processed_row
                          /\ verification_queue' = verification_queue
            /\ (from = "emails" /\ to # from) => to = "check"
            /\ (from = "check" /\ to # from) =>
                   to = IF running["supervisor"] THEN "leads" ELSE "done"
      ]_vars

\* the supervisor starts a new cycle after both steps of the last one failed
C18_Witness ==
    /\ pc["supervisor"] = "leads"
    /\ running["supervisor"]
    /\ supLog = [leads |-> "failed", emails |-> "failed"]
    /\ \E i \in Rows : Cell(i, "Processing Status") = "" /\ enqCount[i] = 0

(* -------------------------------- C19 ---------------------------------- *)
\* C19: for every lead, a send that returned success is the last send ever
\* made for it: at most one delivery succeeds, and a delivered lead has no
\* entry left in the outreach channel or the retry buffer.
C19_NoSendAfterSuccess ==
    \A i \in Indices :
        /\ \A k \in 1..Len(sendLog[i]) : sendLog[i][k] => k = Len(sendLog[i])
        /\ (sendLog[i] # <<>> /\ sendLog[i][Len(sendLog[i])]) =>
               /\ ~InQueue(outreach_queue, i)
               /\ ~InRetry(i)
               /\ Held(leadB, i) => pc["agent_b"] \in {"completed", "except"}

\* one lead was delivered at once, another on its third attempt
C19_Witness ==
    \E i, j \in Rows :
        /\ sendLog[i] = <<TRUE>>
        /\ sendLog[j] = <<FALSE, FALSE, TRUE>>
        /\ pc["agent_b"] = "poll"

(* -------------------------------- C20 ---------------------------------- *)
\* C20: a lead at Processing Status Completed has Email Verified Y and a
\* successful delivery, and its Response Status and Outreach Date came with
\* the update that wrote Completed: they are set exactly on Completed leads.
C20_CompletedMeansDelivered ==
    \A i \in Rows :
        IF Cell(i, "Processing Status") = "Completed"
        THEN /\ Cell(i, "Email Verified (Y/N)") = "Y"
             /\ sendLog[i] # <<>> /\ sendLog[i][Len(sendLog[i])]
             /\ Cell(i, "Response Status") = "Pending Response"
             /\ Cell(i, "Outreach Date") = "now"
             /\ statusLog[i][Len(statusLog[i])] = "Completed"
             /\ dateLog[i][Len(dateLog[i])] = "Outreach Date"
        ELSE /\ Cell(i, "Response Status") = ""
             /\ Cell(i, "Outreach Date") = ""

\* one lead is Completed after its delivery; another was delivered from the
\* retry buffer and is not Completed
C20_Witness ==
    \E i, j \in Rows :
        /\ Cell(i, "Processing Status") = "Completed"
        /\ sendLog[i] = <<TRUE>>
        /\ Cell(j, "Processing Status") = "Outreach"
        /\ sendLog[j] = <<FALSE, TRUE>>

(* ================== the pipeline when every call returns =============== *)
\* one step of the supervisor thread; get_all_records and the mailbox fetch
\* return
SupervisorStep ==
    \/ S_Start
    \/ S_Check
    \/ S_MonitorNewLeads(TRUE)
    \/ S_MonitorEmailTasks(TRUE)

\* one step of the verification thread; every update_lead returns
AgentAStep ==
    \/ A_Start
    \/ A_Check
    \/ A_Poll
    \/ A_Get
    \/ A_MarkVerifying(TRUE)
    \/ \E mx \in BOOLEAN : A_Validate(mx)
    \/ A_MarkVerified(TRUE)
    \/ A_Except(TRUE)

\* one step of the outreach thread; every update_lead returns, send_email
\* returns True or False
AgentBStep ==
    \/ B_Start
    \/ B_Check
    \/ \E ok \in BOOLEAN : B_Retry(ok)
    \/ B_Poll
    \/ B_Get
    \/ B_MarkOutreach(TRUE)
    \/ \E ok \in BOOLEAN : B_Send(ok)
    \/ B_MarkCompleted(TRUE)

NextFair ==
    \/ \E row \in NewRows : AppendRow(row)
    \/ SupervisorStep
    \/ AgentAStep
    \/ AgentBStep

\* the three daemon threads of main are each scheduled again and again
Fairness ==
    /\ WF_vars(SupervisorStep)
    /\ WF_vars(AgentAStep)
    /\ WF_vars(AgentBStep)

SpecFair == Init /\ [][NextFair]_vars /\ Fairness

(* -------------------------------- C21 ---------------------------------- *)
\* no task for index i is left anywhere, and the lead has been processed
Settled(i) == TaskCount(i) = 0 /\ statusLog[i] # <<>>

\* C21: with fairly scheduled workers and calls that return, every lead in
\* the verification channel is eventually dequeued and processed with no task
\* for it left in either channel, in the retry buffer or in a worker's hands,
\* and from some point on both channels and the retry buffer stay empty.
C21_EveryLeadSettles ==
    /\ \A i \in Indices : InQueue(verification_queue, i) ~> Settled(i)
    /\ <>[](/\ verification_queue = <<>>
            /\ outreach_queue = <<>>
            /\ retry_queue = <<>>)

\* two leads went through the pipeline, one of them through all its retries,
\* and nothing is left in the channels or the retry buffer
C21_Witness ==
    /\ verification_queue = <<>> /\ outreach_queue = <<>> /\ retry_queue = <<>>
    /\ \E i, j \in Rows :
          /\ i # j
          /\ enqCount[i] = 1 /\ Settled(i)
          /\ enqCount[j] = 1 /\ Settled(j)
          /\ Len(sendLog[j]) = MaxAttempts

====
